---- MODULE Spec2Model ----
(***************************************************************************)
(* Model of two binary decoders of the pinocchio repository:               *)
(*                                                                         *)
(*  - programs/token/src/extensions/mod.rs: the TLV scan                   *)
(*    get_extension_from_bytes::<T> over the extension region of a Mint    *)
(*    or TokenAccount buffer (specification SpecExt);                      *)
(*  - sdk/pinocchio/src/sysvars/instructions.rs: the instructions-sysvar   *)
(*    reader and the IntrospectedInstruction / IntrospectedAccountMeta     *)
(*    views (specification SpecIx).                                        *)
(*                                                                         *)
(* Bytes are integers 0..255, u16 values are read little-endian.           *)
(***************************************************************************)
EXTENDS Integers, Sequences, FiniteSets, TLC

VARIABLES
    \* ---- get_extension_from_bytes::<T>(acc_data_bytes) ----
    acc_data_bytes, \* [len |-> buffer length, ext |-> the bytes at and after the region start]
    T,              \* the Extension impl: [TYPE, LEN, BASE_STATE]
    pc,             \* "idle" | "call" | "loop" | "done"
    start,          \* the loop cursor `start` (offset into ext_bytes)
    iters,          \* loop iterations executed so far
    result,         \* "running" | "None" | "Some" | "panic"; with the payload when Some
    \* ---- sysvars/instructions.rs ----
    account_info,   \* the AccountInfo handed in: [key, borrowed, data]
    ix_call,        \* the entry point called, with index_relative_to_current
    ix_pc,          \* the position inside the call
    current_index,  \* the u16 load_current_index returned
    index,          \* current_index.saturating_add(index_relative_to_current)
    ix_result,      \* what the call returned
    ix_reads,       \* the reads of the sysvar data made so far: <<field, byte position>>
    view,           \* the IntrospectedInstruction the caller holds: [raw |-> pointer]
    accessed,       \* what the accessor called on the view returned
    borrows,        \* the calls of try_borrow_data made so far
    \* ---- ExtensionType::from_bytes(val) ----
    dec_val,        \* the [u8; 2] handed to the decoder
    decoded         \* "pending", then the kind returned ("NoneKind" for None)

extVars == <<acc_data_bytes, T, pc, start, iters, result>>
ixVars == <<account_info, ix_call, ix_pc, current_index, index, ix_result, ix_reads,
            view, accessed, borrows>>
decVars == <<dec_val, decoded>>
vars == <<extVars, ixVars, decVars>>

----------------------------------------------------------------------------
(* Bounds of the model                                                     *)

\* most TLV records serialised into one extension region
MaxRecs == 3
\* most trailing bytes cut from a serialised region (truncated tails)
MaxCut == 2
\* most instructions serialised into one instructions-sysvar buffer
MaxInstrs == 2
\* most account metas of one serialised instruction
MaxAccounts == 2

----------------------------------------------------------------------------
(* Constants of programs/token/src/extensions/mod.rs                       *)

EXTENSIONS_PADDING == 83
EXTENSION_START_OFFSET == 1
EXTENSION_LEN == 2
EXTENSION_TYPE_LEN == 2
\* Mint::LEN and TokenAccount::LEN (crate::state); the test fixture's first
\* record sits at byte 166 = Mint::LEN + 83 + 1.
MintLEN == 82
TokenAccountLEN == 165

\* u16::from_le_bytes
u16_from_le_bytes(val) == val[1] + 256 * val[2]

\* enum ExtensionType, in declaration order; #[repr(u8)] numbers them 0..27
ExtensionType ==
    << "Uninitialized", "TransferFeeConfig", "TransferFeeAmount",
       "MintCloseAuthority", "ConfidentialTransferMint",
       "ConfidentialTransferAccount", "DefaultAccountState", "ImmutableOwner",
       "MemoTransfer", "NonTransferable", "InterestBearingConfig", "CpiGuard",
       "PermanentDelegate", "NonTransferableAccount", "TransferHook",
       "TransferHookAccount", "ConfidentialTransferFeeConfig",
       "ConfidentialTransferFeeAmount", "MetadataPointer", "TokenMetadata",
       "GroupPointer", "TokenGroup", "GroupMemberPointer", "TokenGroupMember",
       "ConfidentialMintBurn", "ScaledUiAmount", "Pausable", "PausableAccount" >>

\* the discriminant of a kind (`kind as u8`)
Discriminant(kind) == CHOOSE d \in 0..27 : ExtensionType[d + 1] = kind

\* ExtensionType::from_bytes reading the low byte of the tag alone
ExtensionType_from_bytes_low_byte(val) ==
    IF val[1] < 28 THEN ExtensionType[val[1] + 1] ELSE "NoneKind"

\* ExtensionType::from_bytes: the match on the decoded u16; "NoneKind" is None
ExtensionType_from_bytes(val) ==
    LET v == u16_from_le_bytes(val) IN
    CASE v = 0 -> "Uninitialized"
      [] v = 1 -> "TransferFeeConfig"
      [] v = 2 -> "TransferFeeAmount"
      [] v = 3 -> "MintCloseAuthority"
      [] v = 4 -> "ConfidentialTransferMint"
      [] v = 5 -> "ConfidentialTransferAccount"
      [] v = 6 -> "DefaultAccountState"
      [] v = 7 -> "ImmutableOwner"
      [] v = 8 -> "MemoTransfer"
      [] v = 9 -> "NonTransferable"
      [] v = 10 -> "InterestBearingConfig"
      [] v = 11 -> "CpiGuard"
      [] v = 12 -> "PermanentDelegate"
      [] v = 13 -> "NonTransferableAccount"
      [] v = 14 -> "TransferHook"
      [] v = 15 -> "TransferHookAccount"
      [] v = 16 -> "ConfidentialTransferFeeConfig"
      [] v = 17 -> "ConfidentialTransferFeeAmount"
      [] v = 18 -> "MetadataPointer"
      [] v = 19 -> "TokenMetadata"
      [] v = 20 -> "GroupPointer"
      [] v = 21 -> "TokenGroup"
      [] v = 22 -> "GroupMemberPointer"
      [] v = 23 -> "TokenGroupMember"
      [] v = 24 -> "ConfidentialMintBurn"
      [] v = 25 -> "ScaledUiAmount"
      [] v = 26 -> "Pausable"
      [] v = 27 -> "PausableAccount"
      [] OTHER -> "NoneKind"

\* the region start of T's host record (the slice bounds of lines 147-152)
RegionStart(t) ==
    IF t.BASE_STATE = "Mint"
    THEN MintLEN + EXTENSIONS_PADDING + EXTENSION_START_OFFSET
    ELSE TokenAccountLEN + EXTENSION_START_OFFSET

\* crate::from_bytes: the bytes handed over, reinterpreted as T by value
from_bytes(bytes) == bytes

\* ext_bytes[lo..hi] of Rust (0-based, hi exclusive); the caller checks hi <= len
Slice(s, lo, hi) == SubSeq(s, lo + 1, hi)

----------------------------------------------------------------------------
(* get_extension_from_bytes (lines 146-177)                                *)

\* the outcome of one pass through the loop body or of the whole call
Outcome(k, v, n) == [kind |-> k, value |-> v, next |-> n]

\* ScanStep with an undecodable tag skipped by its length instead of ending the scan
ScanStep_SkipUndecodable(ext_bytes, t, s) ==
    LET end == Len(ext_bytes) IN
    IF s + 4 > end THEN Outcome("panic", <<>>, s)
    ELSE
    LET ext_type == ExtensionType_from_bytes(Slice(ext_bytes, s, s + 2))
        ext_len  == u16_from_le_bytes(Slice(ext_bytes, s + 2, s + 4))
    IN
    IF ext_type = t.TYPE /\ ext_len = t.LEN
    THEN IF s + 4 + t.LEN > end
         THEN Outcome("panic", <<>>, s)
         ELSE Outcome("Some", from_bytes(Slice(ext_bytes, s + 4, s + 4 + t.LEN)), s)
    ELSE Outcome("continue", <<>>, s + 4 + ext_len)

\* ScanStep with the payload taken from the length field's offset
ScanStep_PayloadAtLen(ext_bytes, t, s) ==
    LET end == Len(ext_bytes) IN
    IF s + 2 > end THEN Outcome("panic", <<>>, s)
    ELSE
    LET ext_type == ExtensionType_from_bytes(Slice(ext_bytes, s, s + 2)) IN
    IF ext_type = "NoneKind" THEN Outcome("None", <<>>, s)
    ELSE IF s + 4 > end THEN Outcome("panic", <<>>, s)
    ELSE
    LET ext_len == u16_from_le_bytes(Slice(ext_bytes, s + 2, s + 4)) IN
    IF ext_type = t.TYPE /\ ext_len = t.LEN
    THEN IF s + 4 + t.LEN > end
         THEN Outcome("panic", <<>>, s)
         ELSE Outcome("Some", from_bytes(Slice(ext_bytes, s + 2, s + 2 + t.LEN)), s)
    ELSE Outcome("continue", <<>>, s + 4 + ext_len)

\* One iteration of `while start < end` (lines 156-174) at cursor s.
\* A Rust slice index past ext_bytes.len() panics; `?` on None returns None.
ScanStep(ext_bytes, t, s) ==
    LET end          == Len(ext_bytes)
        ext_type_idx == s
        ext_len_idx  == ext_type_idx + 2
        ext_data_idx == ext_len_idx + EXTENSION_LEN
    IN
    IF ext_type_idx + EXTENSION_TYPE_LEN > end
    THEN Outcome("panic", <<>>, s)                        \* line 160
    ELSE
    LET ext_type == ExtensionType_from_bytes(
                        Slice(ext_bytes, ext_type_idx, ext_type_idx + EXTENSION_TYPE_LEN))
    IN
    IF ext_type = "NoneKind"
    THEN Outcome("None", <<>>, s)                         \* line 163
    ELSE IF ext_len_idx + EXTENSION_LEN > end
    THEN Outcome("panic", <<>>, s)                        \* line 164
    ELSE
    LET ext_len == u16_from_le_bytes(
                        Slice(ext_bytes, ext_len_idx, ext_len_idx + EXTENSION_LEN))
    IN
    IF ext_type = t.TYPE /\ ext_len = t.LEN
    THEN IF ext_data_idx + t.LEN > end
         THEN Outcome("panic", <<>>, s)                   \* line 171
         ELSE Outcome("Some",
                      from_bytes(Slice(ext_bytes, ext_data_idx, ext_data_idx + t.LEN)),
                      s)
    ELSE Outcome("continue", <<>>,
                 s + EXTENSION_TYPE_LEN + EXTENSION_LEN + ext_len)   \* line 174

\* lines 147-152: &acc_data_bytes[region start ..] panics on a shorter buffer
Enter ==
    /\ pc = "call"
    /\ IF acc_data_bytes.len < RegionStart(T)
       THEN /\ pc' = "done"
            /\ result' = Outcome("panic", <<>>, 0)
            /\ start' = start
       ELSE /\ pc' = "loop"
            /\ start' = 0
            /\ result' = result
    /\ UNCHANGED <<acc_data_bytes, T, iters, ixVars, decVars>>

\* lines 155-175: one iteration of the loop
Iterate ==
    /\ pc = "loop"
    /\ start < Len(acc_data_bytes.ext)
    /\ LET o == ScanStep(acc_data_bytes.ext, T, start) IN
       IF o.kind = "continue"
       THEN /\ start' = o.next
            /\ UNCHANGED <<pc, result>>
       ELSE /\ pc' = "done"
            /\ result' = o
            /\ start' = start
    /\ iters' = iters + 1
    /\ UNCHANGED <<acc_data_bytes, T, ixVars, decVars>>

\* line 176: the loop condition fails, the call returns None
Exit ==
    /\ pc = "loop"
    /\ start >= Len(acc_data_bytes.ext)
    /\ pc' = "done"
    /\ result' = Outcome("None", <<>>, start)
    /\ UNCHANGED <<acc_data_bytes, T, start, iters, ixVars, decVars>>

----------------------------------------------------------------------------
(* Inputs of the scan                                                      *)

\* u16::to_le_bytes
u16_to_le_bytes(v) == << v % 256, v \div 256 >>

\* tags written into regions: two defined kinds, the first undefined value,
\* and a value whose low byte alone would read as a defined kind
TagVals == {0, 1, 28, 257}
\* declared lengths of records
LenVals == {0, 1}
\* payload bytes
PayloadBytes == {7, 9}

RecSet ==
    UNION { { [tag |-> g, len |-> l, payload |-> p] : p \in [1..l -> PayloadBytes] }
            : <<g, l>> \in TagVals \X LenVals }

RECURSIVE Serialize(_)
\* the record stream {u16 tag, u16 length, payload} with no padding
Serialize(recs) ==
    IF recs = <<>> THEN <<>>
    ELSE u16_to_le_bytes(Head(recs).tag) \o u16_to_le_bytes(Head(recs).len)
            \o Head(recs).payload \o Serialize(Tail(recs))

RecSeqs == UNION { [1..n -> RecSet] : n \in 0..MaxRecs }

\* serialised regions, whole or with up to MaxCut trailing bytes missing
Regions ==
    { SubSeq(Serialize(rs), 1, Len(Serialize(rs)) - c) :
        <<rs, c>> \in { x \in RecSeqs \X (0..MaxCut) : x[2] <= Len(Serialize(x[1])) } }

\* the kinds T the scan is instantiated with
Kinds ==
    [TYPE : {"Uninitialized", "TransferFeeConfig"}, LEN : {0, 1},
     BASE_STATE : {"Mint", "TokenAccount"}]

\* buffers handed to the scan for kind t: too short for a region, or with one
Buffers(t) ==
    { [len |-> n, ext |-> <<>>] : n \in {0, RegionStart(t) - 1} }
    \cup { [len |-> RegionStart(t) + Len(e), ext |-> e] : e \in Regions }

\* the reader is not running
IxIdle ==
    /\ account_info = [key |-> <<>>, borrowed |-> FALSE, data |-> <<>>, data_ptr |-> <<>>]
    /\ ix_call = [fn |-> "none", offset |-> [a |-> "zero", d |-> 0], root |-> 0]
    /\ ix_pc = "idle"
    /\ current_index = 0
    /\ index = [a |-> "zero", d |-> 0]
    /\ ix_result = [kind |-> "running", at |-> "none", value |-> [raw |-> <<>>, index |-> 0]]
    /\ ix_reads = {}
    /\ view = [raw |-> <<>>]
    /\ borrows = 0
    /\ accessed = [op |-> "none", arg |-> 0, kind |-> "none", ref |-> <<>>, flags |-> 0,
                    is_signer |-> FALSE, is_writable |-> FALSE, len |-> 0, wild |-> FALSE]

\* the decoder is not running
DecIdle ==
    /\ dec_val = <<0, 0>>
    /\ decoded = "idle"

InitExt ==
    /\ IxIdle
    /\ DecIdle
    /\ T \in Kinds
    /\ acc_data_bytes \in Buffers(T)
    /\ pc = "call"
    /\ start = 0
    /\ iters = 0
    /\ result = Outcome("running", <<>>, 0)

NextExt == Enter \/ Iterate \/ Exit

SpecExt == InitExt /\ [][NextExt]_vars

----------------------------------------------------------------------------
(* The record structure of a region, stated independently of the scan      *)

TagAt(ext, p) == ext[p + 1] + 256 * ext[p + 2]
LenAt(ext, p) == ext[p + 3] + 256 * ext[p + 4]

RECURSIVE RecordOffsets(_, _)
\* the offsets of the complete records {tag, length, payload} chained from p
RecordOffsets(ext, p) ==
    IF p + 4 > Len(ext) THEN <<>>
    ELSE IF p + 4 + LenAt(ext, p) > Len(ext) THEN <<>>
    ELSE <<p>> \o RecordOffsets(ext, p + 4 + LenAt(ext, p))

RECURSIVE WellFormed(_, _)
\* the region from p on is exactly a sequence of complete records
WellFormed(ext, p) ==
    IF p = Len(ext) THEN TRUE
    ELSE IF p + 4 > Len(ext) THEN FALSE
    ELSE IF p + 4 + LenAt(ext, p) > Len(ext) THEN FALSE
    ELSE WellFormed(ext, p + 4 + LenAt(ext, p))

\* record i of the region carries T's tag and T's length
Matches(ext, offs, i, t) ==
    /\ TagAt(ext, offs[i]) = Discriminant(t.TYPE)
    /\ LenAt(ext, offs[i]) = t.LEN

\* every record before record i carries one of the 28 defined tags
DecodableBefore(ext, offs, i) ==
    \A j \in 1..(i - 1) : TagAt(ext, offs[j]) \in 0..27

\* the records that match T with no undecodable tag before them
ReachableMatches(ext, t) ==
    LET offs == RecordOffsets(ext, 0) IN
    { i \in 1..Len(offs) : Matches(ext, offs, i, t) /\ DecodableBefore(ext, offs, i) }

HasRegion == acc_data_bytes.len >= RegionStart(T)

----------------------------------------------------------------------------
(* Claims about get_extension_from_bytes                                   *)

\* C1: on a buffer whose extension region is a well-formed record sequence,
\* the call returns Some exactly when a record with T's tag and T's length
\* occurs before the first record with a tag outside 0..=27, and None
\* otherwise: a match behind an undecodable tag is not returned, and a record
\* with T's tag and another length is stepped over by its own length.
C1_SomeIffMatchBeforeUndecodable ==
    (pc = "done" /\ HasRegion /\ WellFormed(acc_data_bytes.ext, 0))
        => /\ result.kind \in {"Some", "None"}
           /\ (result.kind = "Some") <=> (ReachableMatches(acc_data_bytes.ext, T) # {})

\* C1 witness: a well-formed region whose first record has T's tag and another
\* length, an undecodable record somewhere, and a match found behind the first
C1_Witness ==
    LET ext  == acc_data_bytes.ext
        offs == RecordOffsets(ext, 0)
    IN
    /\ pc = "done" /\ HasRegion /\ WellFormed(ext, 0)
    /\ result.kind = "Some"
    /\ Len(offs) = 3
    /\ TagAt(ext, offs[1]) = Discriminant(T.TYPE) /\ LenAt(ext, offs[1]) # T.LEN
    /\ Matches(ext, offs, 2, T)
    /\ TagAt(ext, offs[3]) = 28

\* C2: the call never faults on any region content: a header or payload that
\* does not fit in the remaining bytes makes it return None.
C2_NeverFaults ==
    (pc = "done" /\ HasRegion) => result.kind \in {"Some", "None"}

\* C3: a buffer shorter than the region start of T's host record, the empty
\* buffer included, makes the call return None without a panic.
C3_ShortBufferIsNone ==
    (pc = "done" /\ ~HasRegion) => result.kind = "None"

\* C10: when records with T's tag and T's length occur in the region (the
\* records before the first of them being of defined kinds), the call returns
\* by value exactly the T::LEN bytes that follow the 4-byte header of the
\* first of them; later duplicates play no part.
C10_FirstMatchPayload ==
    LET ext  == acc_data_bytes.ext
        offs == RecordOffsets(ext, 0)
        ms   == ReachableMatches(ext, T)
    IN
    (pc = "done" /\ HasRegion /\ ms # {})
        => LET first == CHOOSE i \in ms : \A k \in ms : i <= k IN
           /\ result.kind = "Some"
           /\ result.value = SubSeq(ext, offs[first] + 5, offs[first] + 4 + T.LEN)

\* C10 witness: two records match T with different payloads, the first of
\* them is not the first record of the region, and the first one's payload
\* is what came back
C10_Witness ==
    LET ext  == acc_data_bytes.ext
        offs == RecordOffsets(ext, 0)
    IN
    /\ pc = "done" /\ HasRegion /\ result.kind = "Some"
    /\ Len(offs) = 3 /\ T.LEN = 1
    /\ ~Matches(ext, offs, 1, T)
    /\ Matches(ext, offs, 2, T) /\ Matches(ext, offs, 3, T)
    /\ ext[offs[2] + 5] # ext[offs[3] + 5]
    /\ result.value = << ext[offs[2] + 5] >>


RECURSIVE CursorAfter(_, _)
\* the cursor after n iterations that did not return: each one adds the
\* 4-byte header and the record's declared length to the cursor before it
CursorAfter(ext, n) ==
    IF n = 0 THEN 0
    ELSE LET p == CursorAfter(ext, n - 1) IN p + 4 + LenAt(ext, p)

\* ceil(n / 4)
CeilDiv4(n) == (n + 3) \div 4

\* the cursor of the running loop is the chained sum of 4 + length over the
\* iterations so far, so it moved by at least 4 each time, and the number of
\* iterations stays within ceil(region length / 4)
ScanProgress ==
    LET ext == acc_data_bytes.ext IN
    /\ iters <= CeilDiv4(Len(ext))
    /\ (pc = "loop") => /\ start = CursorAfter(ext, iters)
                        /\ start >= 4 * iters
    /\ (pc = "done" /\ result.kind = "None" /\ result.next >= Len(ext) /\ HasRegion)
            => result.next = CursorAfter(ext, iters)

\* a zero-length record was stepped over and the loop went on to a later pass
ScanProgress_Witness ==
    /\ pc = "done"
    /\ iters = 3
    /\ LenAt(acc_data_bytes.ext, 0) = 0
    /\ LenAt(acc_data_bytes.ext, 4) = 1

\* C13: for every buffer the scan loop ends: every iteration that does not
\* return moves the cursor by exactly 4 + length (at least 4, zero-length
\* records included), the iterations number at most ceil(region length / 4),
\* and the call ends in Some, in None, or at the region end, in no other way.
C13_ScanEndsInSomeNoneOrRegionEnd ==
    /\ ScanProgress
    /\ (pc = "done") => result.kind \in {"Some", "None"}

----------------------------------------------------------------------------
(* sdk/pinocchio/src/sysvars/instructions.rs: memory and integers          *)

\* Sysvar1nstructions1111111111111111111111111
INSTRUCTIONS_ID ==
    << 6, 167, 213, 23, 24, 123, 209, 102,
       53, 218, 212, 4, 85, 253, 194, 192,
       193, 36, 198, 143, 33, 86, 117, 165,
       219, 186, 203, 95, 8, 0, 0, 0 >>

\* size_of::<u16>(), size_of::<u8>(), size_of::<Pubkey>()
SizeOfU16 == 2
SizeOfU8 == 1
SizeOfPubkey == 32
\* size_of::<IntrospectedAccountMeta>() and size_of::<IntrospectedInstruction>():
\* both are #[repr(C)] structs of one field `raw: *const u8`, a 64-bit pointer
\* on the SBF target and on 64-bit hosts
SizeOfIntrospectedAccountMeta == 8
SizeOfIntrospectedInstruction == 8

\* A pointer is its 8 little-endian bytes. ptr.add(k) for a small k >= 0,
\* wrapping at 2^64.
RECURSIVE PtrAdd(_, _)
PtrAdd(ptr, k) ==
    IF ptr = <<>> THEN <<>>
    ELSE << (ptr[1] + k) % 256 >> \o PtrAdd(Tail(ptr), (ptr[1] + k) \div 256)

\* the low 16 bits and the upper 48 bits of a pointer
PtrLo(ptr) == ptr[1] + 256 * ptr[2]
PtrHi(ptr) == SubSeq(ptr, 3, 8)

\* the byte offset of address ptr inside the buffer of len <= 65536 bytes at
\* base, -1 outside it
OffsetOf(base, len, ptr) ==
    LET d == PtrLo(ptr) - PtrLo(base) IN
    IF PtrHi(ptr) = PtrHi(base) /\ 0 <= d /\ d < len THEN d
    ELSE IF PtrHi(ptr) = PtrAdd(PtrHi(base), 1) /\ 0 <= d + 65536 /\ d + 65536 < len
    THEN d + 65536
    ELSE -1

\* *(data.as_ptr().add(pos)): the byte in the buffer, or outside its bounds
\* whatever byte w the memory there holds
ReadBuf(data, pos, w) ==
    IF 0 <= pos /\ pos < Len(data) THEN data[pos + 1] ELSE w

\* *ptr for a raw pointer: a byte of the borrowed buffer when ptr points into
\* it, otherwise whatever byte w the memory there holds
ReadMem(info, ptr, w) ==
    ReadBuf(info.data, OffsetOf(info.data_ptr, Len(info.data), ptr), w)

\* ptr lies outside the borrowed buffer
Wild(info, ptr) == OffsetOf(info.data_ptr, Len(info.data), ptr) = -1

\* u16::from_le(*(p as *const u16)) at buffer position pos
ReadU16Buf(data, pos, w) == ReadBuf(data, pos, w) + 256 * ReadBuf(data, pos + 1, w)

\* u16::from_le(*(ptr as *const u16)) through a raw pointer
ReadU16Mem(info, ptr, w) == ReadMem(info, ptr, w) + 256 * ReadMem(info, PtrAdd(ptr, 1), w)

\* the 8 bytes of a `raw: *const u8` field stored at buffer position pos
ReadPtrBuf(data, pos, w) == [j \in 1..8 |-> ReadBuf(data, pos + j - 1, w)]

\* the 8 bytes of a `raw: *const u8` field stored at address ptr
ReadPtrMem(info, ptr, w) == [j \in 1..8 |-> ReadMem(info, PtrAdd(ptr, j - 1), w)]

\* An i64 is written [a, d]: the value a + d for an anchor a among
\* "min" = i64::MIN, "zero" = 0, "max" = i64::MAX and a displacement |d| < 2^20,
\* so that the values near both ends of the range are exact.
I64(a, d) == [a |-> a, d |-> d]

\* i64::saturating_add of x and a u16 value c widened to i64 (line 106; the
\* sum is commutative)
saturating_add_wrapping(x, c) ==
    IF x.a = "max" /\ x.d + c > 0 THEN I64("min", x.d + c - 1) ELSE I64(x.a, x.d + c)

saturating_add(x, c) ==
    IF x.a = "max" /\ x.d + c > 0 THEN I64("max", 0) ELSE I64(x.a, x.d + c)

\* index < 0 (line 107)
IsNegative(x) == x.a = "min" \/ (x.a = "zero" /\ x.d < 0)

\* (index as usize) >= n for a non-negative index and a u16 n (line 82)
UsizeGeq(x, n) == x.a = "max" \/ x.d >= n

----------------------------------------------------------------------------
(* The reader functions                                                    *)

\* what a reader function returns, with the reads of the data it made
Ret(k, v, rd) == [kind |-> k, value |-> v, reads |-> rd]

\* load_current_index (lines 29-34): the u16 at data.len() - 2, unchecked.
\* On a buffer of fewer than 2 bytes a build without overflow checks wraps
\* len - 2 and reads before the buffer.
load_current_index(data, w) ==
    LET len == Len(data) IN
    Ret("Ok", ReadU16Buf(data, len - 2, w),
        { <<"current_index", len - 2>>, <<"current_index", len - 1>> })

\* load_instruction_at (lines 72-76): the address data + 2 + index * 2 cast to
\* &IntrospectedInstruction; the clone of line 114 copies the struct stored
\* there, so the 8 bytes at that position become the view's `raw`
load_instruction_at(idx, data, w) ==
    LET pos == SizeOfU16 + idx * SizeOfU16 IN
    Ret("Ok", [raw |-> ReadPtrBuf(data, pos, w)],
        { <<"table", pos + j>> : j \in 0..(SizeOfIntrospectedInstruction - 1) })

\* load_instruction_at_checked with the bound test off by one
load_instruction_at_checked_gt(x, data, w) ==
    LET num_instructions == ReadU16Buf(data, 0, w)
        rd == { <<"count", 0>>, <<"count", 1>> }
    IN
    IF x.a = "max" \/ x.d > num_instructions
    THEN Ret("IndexOutOfBounds", [raw |-> <<>>], rd)
    ELSE LET r == load_instruction_at(x.d, data, w) IN
         Ret("Ok", r.value, rd \cup r.reads)

\* load_instruction_at_checked (lines 79-88): x is the index, not negative
load_instruction_at_checked(x, data, w) ==
    LET num_instructions == ReadU16Buf(data, 0, w)
        rd == { <<"count", 0>>, <<"count", 1>> }
    IN
    IF UsizeGeq(x, num_instructions)
    THEN Ret("IndexOutOfBounds", [raw |-> <<>>], rd)
    ELSE LET r == load_instruction_at(x.d, data, w) IN
         Ret("Ok", r.value, rd \cup r.reads)

\* the map_err of lines 115-118
map_err(err) ==
    IF err = "IndexOutOfBounds" THEN "InvalidArgument" ELSE "InvalidInstructionData"

\* the bytes a read outside the buffer may find
WildBytes == {0, 255}

\* the choices of the byte found outside the buffer, one when no read leaves it
WildFor(data, positions) ==
    IF \A q \in positions : 0 <= q /\ q < Len(data) THEN {0} ELSE WildBytes

\* what get_instruction_relative / load_current_index_checked returned, and
\* the return site: "key", "borrow", "overflow", "negative", "bounds", "ok"
Returned(k, site, v) == [kind |-> k, at |-> site, value |-> v]

NoView == [raw |-> <<>>]
NoValue == [raw |-> <<>>, index |-> 0]

\* CheckKey with the comparison against INSTRUCTIONS_ID left out
CheckKey_NoComparison ==
    /\ ix_pc = "call"
    /\ ix_call.fn \in {"get_instruction_relative", "load_current_index_checked"}
    /\ ix_pc' = "borrow"
    /\ UNCHANGED <<account_info, ix_call, current_index, index, ix_result, ix_reads, view,
                   accessed, extVars, decVars, borrows>>

\* lines 46-48 and 100-102: the account key against INSTRUCTIONS_ID
CheckKey ==
    /\ ix_pc = "call"
    /\ ix_call.fn \in {"get_instruction_relative", "load_current_index_checked"}
    /\ IF account_info.key # INSTRUCTIONS_ID
       THEN /\ ix_result' = Returned("UnsupportedSysvar", "key", NoValue)
            /\ ix_pc' = "done"
       ELSE /\ ix_pc' = "borrow"
            /\ UNCHANGED ix_result
    /\ UNCHANGED <<account_info, ix_call, current_index, index, ix_reads, view, accessed,
                   extVars, decVars, borrows>>

\* AccountInfo::try_borrow_data: an error while the data is exclusively
\* borrowed elsewhere, the shared borrow otherwise
try_borrow_data(info) ==
    IF info.borrowed THEN "AccountBorrowFailed" ELSE "Ok"

\* lines 50 and 104: try_borrow_data()? hands an error straight to the caller
Borrow ==
    /\ ix_pc = "borrow"
    /\ borrows' = borrows + 1
    /\ IF try_borrow_data(account_info) # "Ok"
       THEN /\ ix_result' = Returned(try_borrow_data(account_info), "borrow", NoValue)
            /\ ix_pc' = "done"
       ELSE /\ ix_pc' = "load"
            /\ UNCHANGED ix_result
    /\ UNCHANGED <<account_info, ix_call, current_index, index, ix_reads, view, accessed,
                   extVars, decVars>>

\* lines 51-52 and 105: load_current_index(&instruction_sysvar)
LoadCurrentIndex ==
    /\ ix_pc = "load"
    /\ \/ \E w \in WildFor(account_info.data,
                           {Len(account_info.data) - 2, Len(account_info.data) - 1}) :
            LET r == load_current_index(account_info.data, w) IN
            /\ current_index' = r.value
            /\ ix_reads' = ix_reads \cup r.reads
            /\ IF ix_call.fn = "load_current_index_checked"
               THEN /\ ix_result' = Returned("Ok", "ok", [raw |-> <<>>, index |-> r.value])
                    /\ ix_pc' = "done"
               ELSE /\ ix_pc' = "add"
                    /\ UNCHANGED ix_result
       \/ \* a build with overflow checks panics on len - 2 (line 32)
          /\ Len(account_info.data) < 2
          /\ ix_result' = Returned("panic", "overflow", NoValue)
          /\ ix_pc' = "done"
          /\ UNCHANGED <<current_index, ix_reads>>
    /\ UNCHANGED <<account_info, ix_call, index, view, accessed, extVars, decVars, borrows>>

\* lines 105-109: the target index and the test for a negative one
ResolveIndex ==
    /\ ix_pc = "add"
    /\ index' = saturating_add(ix_call.offset, current_index)
    /\ IF IsNegative(index')
       THEN /\ ix_result' = Returned("InvalidArgument", "negative", NoValue)
            /\ ix_pc' = "done"
       ELSE /\ ix_pc' = "lookup"
            /\ UNCHANGED ix_result
    /\ UNCHANGED <<account_info, ix_call, current_index, ix_reads, view, accessed, extVars, decVars, borrows>>

\* the positions load_instruction_at_checked may read for index x
LookupPositions(x) ==
    {0, 1} \cup (IF x.a = "zero" THEN { 2 + 2 * x.d + j : j \in 0..7 } ELSE {})

\* lines 111-118: load_instruction_at_checked, the clone and the map_err
Lookup ==
    /\ ix_pc = "lookup"
    /\ \E w \in WildFor(account_info.data, LookupPositions(index)) :
        LET r == load_instruction_at_checked(index, account_info.data, w) IN
        /\ ix_reads' = ix_reads \cup r.reads
        /\ IF r.kind = "Ok"
           THEN /\ ix_result' = Returned("Ok", "ok", [raw |-> r.value.raw, index |-> 0])
                /\ view' = r.value
                /\ ix_pc' = "view"
           ELSE /\ ix_result' = Returned(map_err(r.kind), "bounds", NoValue)
                /\ ix_pc' = "done"
                /\ UNCHANGED view
    /\ UNCHANGED <<account_info, ix_call, current_index, index, accessed, extVars, decVars, borrows>>

----------------------------------------------------------------------------
(* IntrospectedInstruction and IntrospectedAccountMeta (lines 226-328)     *)

IS_SIGNER_BIT == 0
IS_WRITABLE_BIT == 1

\* (byte & (1 << bit)) != 0
BitSet(byte, bit) == (byte \div (2 ^ bit)) % 2 = 1

\* what an accessor returned: a reference is the address it points to
Accessed(op, arg, k, ref, flags, len, wild) ==
    [op |-> op, arg |-> arg, kind |-> k, ref |-> ref, flags |-> flags,
     is_signer |-> BitSet(flags, IS_SIGNER_BIT),
     is_writable |-> BitSet(flags, IS_WRITABLE_BIT),
     len |-> len, wild |-> wild]

\* get_account_meta_at_unchecked (lines 233-237): the address of the
\* &IntrospectedAccountMeta
get_account_meta_at_unchecked(v, i) ==
    PtrAdd(v.raw, SizeOfU16 + i * SizeOfIntrospectedAccountMeta)

\* IntrospectedAccountMeta::is_signer / is_writable / key (lines 306-323) on the
\* reference at address ref: self.raw is the pointer stored at ref, the flags
\* byte is *self.raw and the key is at self.raw.add(size_of::<u8>())
meta_fields(info, ref, i, w) ==
    LET raw == ReadPtrMem(info, ref, w) IN
    Accessed("get_account_meta_at", i, "Ok", PtrAdd(raw, SizeOfU8),
             ReadMem(info, raw, w), SizeOfPubkey,
             Wild(info, raw) \/ \E j \in 0..7 : Wild(info, PtrAdd(ref, j)))

\* get_account_meta_at (lines 239-248), then the accessors of the meta view
get_account_meta_at(info, v, i, w) ==
    IF i >= ReadU16Mem(info, v.raw, w)
    THEN Accessed("get_account_meta_at", i, "IndexOutOfBounds", <<>>, 0, 0,
                  Wild(info, v.raw))
    ELSE meta_fields(info, get_account_meta_at_unchecked(v, i), i, w)

\* get_program_id (lines 250-255): a &Pubkey
get_program_id(info, v, w) ==
    LET num_accounts == ReadU16Mem(info, v.raw, w) IN
    Accessed("get_program_id", 0, "Ok",
             PtrAdd(v.raw, SizeOfU16 + num_accounts * SizeOfIntrospectedAccountMeta),
             0, SizeOfPubkey, Wild(info, v.raw))

\* get_data (lines 257-263): the slice from_raw_parts(start, data_len)
get_data(info, v, w) ==
    LET num_accounts == ReadU16Mem(info, v.raw, w)
        len_at == PtrAdd(v.raw, SizeOfU16 + num_accounts * SizeOfIntrospectedAccountMeta
                                    + SizeOfPubkey)
    IN
    Accessed("get_data", 0, "Ok", PtrAdd(len_at, SizeOfU16), 0,
             ReadU16Mem(info, len_at, w),
             Wild(info, v.raw) \/ Wild(info, len_at) \/ Wild(info, PtrAdd(len_at, 1)))

\* the caller builds a view from the public field `raw` (lines 226-230)
ConstructView ==
    /\ ix_pc = "call"
    /\ ix_call.fn = "view"
    /\ view' = [raw |-> PtrAdd(account_info.data_ptr, ix_call.root)]
    /\ ix_pc' = "view"
    /\ UNCHANGED <<account_info, ix_call, current_index, index, ix_result, ix_reads,
                   accessed, extVars, decVars, borrows>>

\* the caller asks the view it holds for account meta i and reads its fields
GetAccountMetaAt ==
    /\ ix_pc = "view"
    /\ \E i \in 0..(MaxAccounts + 1), w \in WildBytes :
        accessed' = get_account_meta_at(account_info, view, i, w)
    /\ ix_pc' = "accessed"
    /\ UNCHANGED <<account_info, ix_call, current_index, index, ix_result, ix_reads,
                   view, extVars, decVars, borrows>>

GetProgramId ==
    /\ ix_pc = "view"
    /\ \E w \in WildBytes : accessed' = get_program_id(account_info, view, w)
    /\ ix_pc' = "accessed"
    /\ UNCHANGED <<account_info, ix_call, current_index, index, ix_result, ix_reads,
                   view, extVars, decVars, borrows>>

GetData ==
    /\ ix_pc = "view"
    /\ \E w \in WildBytes : accessed' = get_data(account_info, view, w)
    /\ ix_pc' = "accessed"
    /\ UNCHANGED <<account_info, ix_call, current_index, index, ix_result, ix_reads,
                   view, extVars, decVars, borrows>>

----------------------------------------------------------------------------
(* Inputs of the reader: the instructions sysvar as the host writes it     *)

\* a Pubkey of 32 equal bytes
KeyFill(b) == [k \in 1..SizeOfPubkey |-> b]

\* the flags of account meta i: bit 0 signer, bit 1 writable
FlagOf(i) == << 1, 2, 3, 0 >>[((i - 1) % 4) + 1]

\* instruction j with n account metas and dl data bytes
Instr(j, n, dl) ==
    [accounts |-> [i \in 1..n |-> [flags |-> FlagOf(i), key |-> KeyFill(16 * j + i)]],
     program_id |-> KeyFill(200 + j),
     data |-> [k \in 1..dl |-> 5]]

RECURSIVE SerializeMetas(_)
SerializeMetas(ms) ==
    IF ms = <<>> THEN <<>>
    ELSE << Head(ms).flags >> \o Head(ms).key \o SerializeMetas(Tail(ms))

\* {num_accounts: u16, metas, program_id, data_len: u16, data}
SerializeInstruction(ins) ==
    u16_to_le_bytes(Len(ins.accounts)) \o SerializeMetas(ins.accounts)
        \o ins.program_id \o u16_to_le_bytes(Len(ins.data)) \o ins.data

RECURSIVE Concat(_)
Concat(ss) == IF ss = <<>> THEN <<>> ELSE Head(ss) \o Concat(Tail(ss))

RECURSIVE OffsetTable(_, _)
\* the byte offset of each record, the first one at `at`
OffsetTable(recs, at) ==
    IF recs = <<>> THEN <<>>
    ELSE <<at>> \o OffsetTable(Tail(recs), at + Len(Head(recs)))

\* {count: u16, offset table, records, current index: u16}
SerializeSysvar(instrs, cur) ==
    LET recs  == [j \in 1..Len(instrs) |-> SerializeInstruction(instrs[j])]
        table == OffsetTable(recs, 2 + 2 * Len(recs))
    IN
    u16_to_le_bytes(Len(recs))
        \o Concat([j \in 1..Len(table) |-> u16_to_le_bytes(table[j])])
        \o Concat(recs) \o u16_to_le_bytes(cur)

\* data lengths of the serialised instructions
DataLens == {0, 1}
\* current indexes stored in the trailing two bytes
CurVals == {0, 1, 65535}

Shapes == (0..MaxAccounts) \X DataLens
ShapeSeqs == UNION { [1..n -> Shapes] : n \in 0..MaxInstrs }

SysvarOf(shapes, cur) ==
    SerializeSysvar([j \in 1..Len(shapes) |-> Instr(j, shapes[j][1], shapes[j][2])], cur)

WellFormedBuffers == { SysvarOf(sh, cur) : <<sh, cur>> \in ShapeSeqs \X CurVals }

\* too short for the index, too short for the count, a count with no table
\* behind it, a table entry that points past the end
MalformedBuffers ==
    { <<>>, <<1>>, <<3, 0, 0, 0>>, <<1, 0, 200, 0, 0, 0>> }

\* the count field and the offset table of a well-formed buffer
CountOf(data) == data[1] + 256 * data[2]
TableEntry(data, t) == data[2 + 2 * t + 1] + 256 * data[2 + 2 * t + 2]

\* index_relative_to_current
OffsetVals ==
    { I64("min", 0), I64("min", 1), I64("max", -1), I64("max", 0) }
    \cup { I64("zero", d) : d \in {-65536, -2, -1, 0, 1, 2} }

Calls(data) ==
    { [fn |-> "get_instruction_relative", offset |-> o, root |-> 0] : o \in OffsetVals }
    \cup { [fn |-> "load_current_index_checked", offset |-> I64("zero", 0), root |-> 0] }
    \cup IF data \in WellFormedBuffers
         THEN { [fn |-> "view", offset |-> I64("zero", 0), root |-> TableEntry(data, t)]
                : t \in 0..(CountOf(data) - 1) }
         ELSE {}

\* a key that is not the sysvar's
OtherKey == [k \in 1..32 |-> IF k = 32 THEN 1 ELSE INSTRUCTIONS_ID[k]]

\* where the host maps the account data
BaseAddrs == { << 16, 0, 0, 0, 4, 0, 0, 0 >> }

ExtIdle ==
    /\ acc_data_bytes = [len |-> 0, ext |-> <<>>]
    /\ T = [TYPE |-> "Uninitialized", LEN |-> 0, BASE_STATE |-> "Mint"]
    /\ pc = "idle"
    /\ start = 0
    /\ iters = 0
    /\ result = Outcome("running", <<>>, 0)

InitIx ==
    /\ ExtIdle
    /\ DecIdle
    /\ borrows = 0
    /\ account_info \in
         [key : {INSTRUCTIONS_ID, OtherKey}, borrowed : BOOLEAN,
          data : WellFormedBuffers \cup MalformedBuffers, data_ptr : BaseAddrs]
    /\ ix_call \in Calls(account_info.data)
    /\ ix_pc = "call"
    /\ current_index = 0
    /\ index = I64("zero", 0)
    /\ ix_result = Returned("running", "none", NoValue)
    /\ ix_reads = {}
    /\ view = NoView
    /\ accessed = Accessed("none", 0, "none", <<>>, 0, 0, FALSE)

NextIx ==
    \/ CheckKey \/ Borrow \/ LoadCurrentIndex \/ ResolveIndex \/ Lookup
    \/ ConstructView \/ GetAccountMetaAt \/ GetProgramId \/ GetData

SpecIx == InitIx /\ [][NextIx]_vars

----------------------------------------------------------------------------
(* Claims about the instructions-sysvar reader and its views               *)

\* get_instruction_relative has computed its target index
Resolved ==
    /\ ix_call.fn = "get_instruction_relative"
    /\ (ix_pc = "lookup" \/ ix_result.at \in {"negative", "bounds", "ok"})

\* the caller holds a view rooted at an instruction record of a well-formed buffer
ProperView ==
    /\ ix_call.fn = "view"
    /\ account_info.data \in WellFormedBuffers
    /\ ix_pc = "accessed"

\* the u16 at byte offset p of the sysvar data
U16At(p) == account_info.data[p + 1] + 256 * account_info.data[p + 2]

\* C4: when get_instruction_relative succeeds on a well-formed buffer, the
\* view it returns is rooted at byte offset offset_table[target] of the
\* buffer, target being current_index + offset.
C4_ViewRootedAtTableOffset ==
    (/\ ix_call.fn = "get_instruction_relative"
     /\ ix_result.kind = "Ok"
     /\ account_info.data \in WellFormedBuffers)
        => ix_result.value.raw
             = PtrAdd(account_info.data_ptr, TableEntry(account_info.data, index.d))

\* C5: load_current_index, load_instruction_at_checked and
\* get_instruction_relative read only byte positions inside [0, len) of the
\* sysvar data, whatever the buffer holds, and end in an error rather than a
\* fault when a position would fall outside.
C5_ReadsInsideBuffer ==
    /\ \A r \in ix_reads : 0 <= r[2] /\ r[2] < Len(account_info.data)
    /\ ix_result.kind # "panic"

\* C6: on a view rooted at `root` with account count n, get_account_meta_at(i)
\* fails with IndexOutOfBounds for i >= n, and for i < n gives the meta whose
\* flags byte is the byte at root + 2 + 33 i, whose key is at root + 2 + 33 i + 1,
\* with is_signer bit 0 and is_writable bit 1 of that byte.
C6_AccountMetaAtStride33 ==
    (ProperView /\ accessed.op = "get_account_meta_at")
        => LET root == ix_call.root
               n    == U16At(root)
               at   == root + 2 + accessed.arg * 33
           IN
           IF accessed.arg >= n
           THEN accessed.kind = "IndexOutOfBounds"
           ELSE /\ accessed.kind = "Ok"
                /\ accessed.flags = account_info.data[at + 1]
                /\ accessed.ref = PtrAdd(account_info.data_ptr, at + 1)
                /\ accessed.is_signer = (account_info.data[at + 1] % 2 = 1)
                /\ accessed.is_writable = ((account_info.data[at + 1] \div 2) % 2 = 1)

\* C7: on a view rooted at `root` with account count n, get_program_id() is
\* the 32 bytes at root + 2 + 33 n, and get_data() is the slice of length L at
\* root + 2 + 33 n + 32 + 2, L being the u16 at root + 2 + 33 n + 32.
C7_ProgramIdAndDataAfterMetas ==
    LET root == ix_call.root
        at   == root + 2 + U16At(root) * 33
    IN
    /\ (ProperView /\ accessed.op = "get_program_id")
          => accessed.ref = PtrAdd(account_info.data_ptr, at)
    /\ (ProperView /\ accessed.op = "get_data")
          => /\ accessed.ref = PtrAdd(account_info.data_ptr, at + 32 + 2)
             /\ accessed.len = U16At(at + 32)

\* C8: the target index is current_index + offset without wrap-around,
\* clamped to i64::MAX, for every offset including i64::MIN and i64::MAX; a
\* negative target makes the call return InvalidArgument having read nothing
\* but the current index.
C8_SaturatingTargetNegativeRejected ==
    Resolved
        => /\ index.a = ix_call.offset.a
           /\ \/ index.d = ix_call.offset.d + current_index
              \/ /\ index = I64("max", 0)
                 /\ ix_call.offset.d + current_index > 0
           /\ (index.a = "min" \/ (index.a = "zero" /\ index.d < 0))
                => /\ ix_result = Returned("InvalidArgument", "negative", NoValue)
                   /\ \A r \in ix_reads : r[1] = "current_index"
                   /\ view = NoView

\* C8 witness: offset i64::MIN with the largest current index was rejected
C8_Witness ==
    /\ Resolved
    /\ ix_call.offset = I64("min", 0)
    /\ current_index = 65535
    /\ ix_result.kind = "InvalidArgument"

\* C9: a target index >= the count in the first two bytes of the buffer makes
\* get_instruction_relative return InvalidArgument (never IndexOutOfBounds),
\* with no view and without a read of the offset table or of a record.
C9_TargetBeyondCountRejected ==
    (/\ Resolved
     /\ ix_result.at \in {"bounds", "ok"}
     /\ Len(account_info.data) >= 2
     /\ (index.a = "max" \/ index.d >= CountOf(account_info.data)))
        => /\ ix_result = Returned("InvalidArgument", "bounds", NoValue)
           /\ view = NoView
           /\ \A r \in ix_reads : r[1] \in {"current_index", "count"}

\* C9 witness: the target equals a non-zero count and was rejected
C9_Witness ==
    /\ Resolved
    /\ ix_result.at = "bounds"
    /\ Len(account_info.data) >= 2
    /\ CountOf(account_info.data) > 0
    /\ index = I64("zero", CountOf(account_info.data))
    /\ ix_result.kind = "InvalidArgument"

----------------------------------------------------------------------------
(* ExtensionType::from_bytes on its own (lines 94-130)                     *)

Bytes == 0..255

\* the caller hands over two bytes and takes the Option<ExtensionType>
Decode ==
    /\ decoded = "pending"
    /\ decoded' = ExtensionType_from_bytes(dec_val)
    /\ UNCHANGED <<dec_val, extVars, ixVars>>

InitDec ==
    /\ ExtIdle
    /\ IxIdle
    /\ dec_val \in { <<lo, hi>> : <<lo, hi>> \in Bytes \X Bytes }
    /\ decoded = "pending"

NextDec == Decode

SpecDec == InitDec /\ [][NextDec]_vars

\* C11: from_bytes on the little-endian encoding of v gives a kind for exactly
\* the 28 values 0..=27, the kind whose discriminant is v (so no two values
\* share a kind and decoding then re-identifying is the identity), and None
\* for every v in 28..=65535.
C11_DecodeIsIdentityOnDefinedTags ==
    LET v == dec_val[1] + 256 * dec_val[2] IN
    (decoded # "pending")
        => /\ v \in 0..27 => /\ decoded \in { ExtensionType[k] : k \in 1..28 }
                             /\ ExtensionType[v + 1] = decoded
                             /\ \A k \in 1..28 : ExtensionType[k] = decoded => k = v + 1
                             /\ u16_to_le_bytes(Discriminant(decoded)) = dec_val
           /\ v \in 28..65535 => decoded = "NoneKind"

\* C11 witness: the last defined tag decoded to the last kind of the enum
C11_Witness ==
    /\ dec_val = <<27, 0>>
    /\ decoded = "PausableAccount"

\* C12: load_current_index_checked and get_instruction_relative return
\* UnsupportedSysvar whenever the account key is not INSTRUCTIONS_ID, before
\* any borrow and any read of the data; the data is borrowed only under the
\* matching key, once, and a failed borrow comes back to the caller as the
\* error, with nothing read.
C12_KeyCheckPrecedesBorrowAndReads ==
    (ix_call.fn \in {"get_instruction_relative", "load_current_index_checked"})
        => /\ (account_info.key # INSTRUCTIONS_ID)
                => /\ borrows = 0
                   /\ ix_reads = {}
                   /\ ix_pc \in {"call", "done"}
                   /\ (ix_pc = "done")
                        => ix_result = Returned("UnsupportedSysvar", "key", NoValue)
           /\ borrows <= 1
           /\ (ix_reads # {}) => (borrows = 1 /\ ~account_info.borrowed)
           /\ (account_info.key = INSTRUCTIONS_ID /\ account_info.borrowed
                 /\ ix_pc \notin {"call", "borrow"})
                => /\ ix_pc = "done"
                   /\ ix_result.at = "borrow"
                   /\ ix_result.kind \notin {"Ok", "running", "UnsupportedSysvar"}
                   /\ ix_reads = {}
                   /\ borrows = 1

\* C12 witness: get_instruction_relative on an account with another key whose
\* data is also exclusively borrowed returned UnsupportedSysvar
C12_Witness ==
    /\ ix_call.fn = "get_instruction_relative"
    /\ account_info.key # INSTRUCTIONS_ID
    /\ account_info.borrowed
    /\ ix_result.kind = "UnsupportedSysvar"
    /\ borrows = 0

====
